---------------------------- MODULE Spec2Model ----------------------------
(***************************************************************************)
(* Model of the MMM-IT8951 node helper (src/node_helper.js): the pending   *)
(* region queue (stackAreas / processStack), the mutation handler          *)
(* (puppeteerMutation), the full refresh and its timer (fullRefresh /      *)
(* refreshTimeout), the display dispatch (displayIT8951) and the 8 -> 4    *)
(* bit codec (downscale8bitsTo4bits / isBufferOnlyBW).                     *)
(*                                                                         *)
(* JavaScript runs the helper on one event loop: every action below is one *)
(* run-to-completion step, from the event that resumes the code (a         *)
(* notification, a timer, a promise settling) to the next await.           *)
(***************************************************************************)
EXTENDS Integers, Sequences, FiniteSets, Bags, TLC

(***************************************************************************)
(* Bounds of the model.                                                    *)
(***************************************************************************)
\* number of mutation events the observer reports in one behaviour
MaxMut == 3
\* full refreshes in flight plus full-refresh timers armed, at most
MaxFull == 2
\* CONFIG notifications accepted before initialization has finished, at most
MaxConfig == 1
\* CONFIG notifications accepted in the behaviours of SpecTwoConfigs, at most
MaxConfigTwice == 2
\* visible modules of the page, at most
MaxModules == 2
\* raw buffers up to this length are taken over every byte of SampleBytes
MaxLenAll == 2
\* longer raw buffers, up to this length, are taken over FewBytes
MaxLen == 4
\* mutations in one batch of the MutationObserver, at most
MaxBatch == 2

(***************************************************************************)
(* Values.                                                                 *)
(***************************************************************************)
\* DISPLAY_UPDATE_MODE_DU4
DISPLAY_UPDATE_MODE_DU4 == 7

\* an optional value: <<>> is undefined / false, <<v>> is the value v
None == <<>>
Some(v) == <<v>>

\* the areas the mutation observer reports (already merged, 32-aligned)
Rects ==
    { [x |-> 0,  y |-> 0, width |-> 32, height |-> 10],
      [x |-> 32, y |-> 0, width |-> 32, height |-> 10] }

\* captureScreen() without rect: the whole display
FullRect == [x |-> 0, y |-> 0, width |-> 64, height |-> 10]

\* the raw 8-bit buffers a capture may yield: pure black and white, or with
\* a gray sample (0x60) that the two packings encode differently
Rasters == { <<0, 255>>, <<255, 96>> }

\* payloads of IT8951_ASK_FULL_REFRESH
Payloads == { "undefined", "true", "false", "string" }

\* the module's config (defaults applied), sent as the payload of CONFIG
Configs ==
    { [ defined |-> TRUE, bufferDelay |-> Some(0), defaultTo4levels |-> FALSE, mock |-> FALSE ],
      [ defined |-> TRUE, bufferDelay |-> Some(1000), defaultTo4levels |-> TRUE, mock |-> FALSE ],
      [ defined |-> TRUE, bufferDelay |-> None,    defaultTo4levels |-> TRUE,  mock |-> TRUE ] }

\* config: {} before the CONFIG notification
EmptyConfig ==
    [ defined |-> FALSE, bufferDelay |-> None,
      defaultTo4levels |-> FALSE, mock |-> FALSE ]

\* counts returned by getNbVisibleModules
ModuleCounts ==
    { c \in [ nbModules : 0..MaxModules, nbModules4levels : 0..MaxModules,
               nbModulesNo4levels : 0..MaxModules ] :
        /\ c.nbModules4levels <= c.nbModules
        /\ c.nbModulesNo4levels <= c.nbModules }

(***************************************************************************)
(* Bit operations on bytes.                                                *)
(***************************************************************************)
RECURSIVE BitOr(_, _)
BitOr(a, b) ==
    IF a = 0 THEN b
    ELSE IF b = 0 THEN a
    ELSE (IF (a % 2 = 1) \/ (b % 2 = 1) THEN 1 ELSE 0) + 2 * BitOr(a \div 2, b \div 2)

RECURSIVE BitAnd(_, _)
BitAnd(a, b) ==
    IF a = 0 \/ b = 0 THEN 0
    ELSE (IF (a % 2 = 1) /\ (b % 2 = 1) THEN 1 ELSE 0) + 2 * BitAnd(a \div 2, b \div 2)

ShiftRight4(a) == a \div 16
ShiftLeft4(a) == a * 16

\* no quantization: the nibble as it is
Quantize4Identity(h) == h

\* a quantization to the levels 0, 4, 8, 12
Quantize4By4(h) == (h \div 4) * 4

\* parseInt(h / 5) * 5 for a nibble h
Quantize4(h) == (h \div 5) * 5

\* a store into a Buffer keeps the low 8 bits
ToByte(v) == v % 256

(***************************************************************************)
(* downscale8bitsTo4bits(buffer, is4levels)                                *)
(***************************************************************************)
\* buffer[k] in JavaScript (k from 0) as an operand of >> or &: a read past
\* the end gives undefined, which these operators take as 0
ReadByte(buffer, k) == IF k < Len(buffer) THEN buffer[k + 1] ELSE 0

\* a packing that puts sample 2i in the high nibble and sample 2i+1 in the
\* low nibble when is4levels is false
downscale8bitsTo4bitsSwapped(buffer, is4levels) ==
    [ j \in 1..(Len(buffer) \div 2) |->
        IF is4levels
        THEN ToByte(BitOr(Quantize4(ShiftRight4(buffer[2 * j - 1])),
                          ShiftLeft4(Quantize4(ShiftRight4(buffer[2 * j])))))
        ELSE ToByte(BitOr(ShiftRight4(buffer[2 * j]),
                          BitAnd(buffer[2 * j - 1], 240))) ]

\* Buffer.alloc(buffer.length / 2) drops the fraction of its size and fills
\* with 0; the loop runs for every i < buffer.length / 2, and a store past the
\* end of buffer4b is ignored.  No statement of the function throws.
downscale8bitsTo4bits(buffer, is4levels) ==
    LET size == Len(buffer) \div 2
        loop == { i \in 0..Len(buffer) : 2 * i < Len(buffer) }
        value(i) ==
            IF is4levels
            THEN ToByte(BitOr(Quantize4(ShiftRight4(ReadByte(buffer, 2 * i))),
                              ShiftLeft4(Quantize4(ShiftRight4(ReadByte(buffer, 2 * i + 1))))))
            ELSE ToByte(BitOr(ShiftRight4(ReadByte(buffer, 2 * i)),
                              BitAnd(ReadByte(buffer, 2 * i + 1), 240)))
    IN  [ j \in 1..size |-> IF (j - 1) \in loop THEN value(j - 1) ELSE 0 ]

(***************************************************************************)
(* isBufferOnlyBW(buffer)                                                  *)
(***************************************************************************)
\* a test on the whole byte: 0x00 or 0xFF
isBufferOnlyBWExact(buffer) == \A i \in 1..Len(buffer) : buffer[i] \in {0, 255}

isBufferOnlyBW(buffer) ==
    \A i \in 1..Len(buffer) :
        LET val == ShiftRight4(buffer[i]) IN ~(val # 15 /\ val # 0)

\* JSON.stringify(rect): the text of the four numbers, as a tuple
JSONstringify(rect) == <<rect.x, rect.y, rect.width, rect.height>>

RectStrs == { JSONstringify(r) : r \in Rects }

\* typeof v === "number"
IsNumber(v) == v # None

\* force16levels = (typeof payload !== 'boolean' || payload)
Force16Of(payload) == (payload \notin {"true", "false"}) \/ (payload = "true")

VARIABLES
    moduleConfig,    \* this.config of the front-end module (MMM-IT8951.js)
    isInitialized,   \* this.isInitialized
    config,          \* this.config
    stackAreas,      \* this.stackAreas: sequence of reported areas
    refreshTimeout,  \* this.refreshTimeout: "undefined", "armed" or "stale"
    orphanTimers,    \* armed timers that refreshTimeout no longer holds
    display,         \* this.display: "undefined", "open", "mock", "closed"
    stopped,         \* stop() was called
    nbObservers,     \* MutationObservers registered in the page
    nbDriverInit,    \* drivers created by initializeEink
    inits,           \* bag of initializeEink executions in flight
    fulls,           \* bag of fullRefresh executions in flight
    drains,          \* bag of processStack executions in flight
    immediates,      \* bag of "display immediately" executions in flight
    lastDraw,        \* the call of display.draw (or the png written in mock)
                     \* made by the last step, NoDraw if it made none
    nbMutations,     \* number of mutation events reported so far
    call             \* a call of one of the helper's pure functions, with its result

vars == << moduleConfig, isInitialized, config, stackAreas,
           refreshTimeout, orphanTimers, display, stopped, nbObservers,
           nbDriverInit, inits, fulls, drains, immediates, lastDraw,
           nbMutations, call >>

NoDraw ==
    [ kind |-> "none", src |-> "none", force16levels |-> FALSE,
      is4levels |-> FALSE, display_mode |-> None, data |-> <<>>, buffer |-> <<>> ]

\* no pure function is being looked at
NoCall == [ fn |-> "none" ]

\* the fields of the helper when it is created
InitHelper ==
    /\ isInitialized = FALSE
    /\ stackAreas = <<>>
    /\ refreshTimeout = "undefined"
    /\ orphanTimers = 0
    /\ display = "undefined"
    /\ stopped = FALSE
    /\ nbObservers = 0
    /\ nbDriverInit = 0
    /\ inits = EmptyBag
    /\ fulls = EmptyBag
    /\ drains = EmptyBag
    /\ immediates = EmptyBag
    /\ lastDraw = NoDraw
    /\ nbMutations = 0

Init ==
    /\ moduleConfig \in Configs
    /\ config = EmptyConfig
    /\ call = NoCall
    /\ InitHelper

One(e) == SetToBag({e})

\* replace one element of a bag by another
Replace(bag, old, new) == (bag (-) One(old)) (+) One(new)

(***************************************************************************)
(* A reported area is the rect with two history marks: inFull, a full      *)
(* refresh was in flight when the area arrived and no full refresh has     *)
(* ended since; superseded, a full refresh started while the area was in   *)
(* the queue.  An area pushed on the queue has a third mark: seq, the rank *)
(* of its mutation among the mutations reported.  The code reads none of   *)
(* them.                                                                   *)
(***************************************************************************)
NewArea(rect) == [ rect |-> rect, inFull |-> fulls # EmptyBag, superseded |-> FALSE ]

PushedArea(rect) ==
    [ rect |-> rect, inFull |-> fulls # EmptyBag, superseded |-> FALSE,
      seq |-> nbMutations + 1 ]

Superseded(stack) == [ i \in DOMAIN stack |-> [ stack[i] EXCEPT !.superseded = TRUE ] ]

EndOfFull(area) == [ area EXCEPT !.inFull = FALSE ]

\* a full refresh ends (draw dispatched, or failure): the marks inFull fall
FullEnds ==
    /\ stackAreas' = [ i \in DOMAIN stackAreas |-> EndOfFull(stackAreas[i]) ]
    /\ drains' = BagOfAll(LAMBDA d : IF d.held = None THEN d
                                      ELSE [ d EXCEPT !.held = Some(EndOfFull(d.held[1])) ],
                          drains)
    /\ immediates' = BagOfAll(LAMBDA m : [ m EXCEPT !.area = EndOfFull(m.area) ], immediates)

(***************************************************************************)
(* displayIT8951(imageDesc, is4levels): what reaches the driver (or, in    *)
(* mock mode, the png file) once Sharp has produced the raw buffer data.   *)
(* The index of the mock file name (this.inc) is not part of the model.    *)
(***************************************************************************)
\* a display that takes is4levels as it is given, without looking at the buffer
displayIT8951NoProbe(src, force16levels, data, is4levelsArg) ==
    IF ~config.mock
    THEN [ kind |-> "draw", src |-> src, force16levels |-> force16levels,
           is4levels |-> is4levelsArg,
           display_mode |-> IF is4levelsArg THEN Some(DISPLAY_UPDATE_MODE_DU4) ELSE None,
           data |-> data, buffer |-> downscale8bitsTo4bits(data, is4levelsArg) ]
    ELSE [ kind |-> "png", src |-> src, force16levels |-> force16levels,
           is4levels |-> is4levelsArg, display_mode |-> None, data |-> <<>>,
           buffer |-> <<>> ]

displayIT8951(src, force16levels, data, is4levelsArg) ==
    IF ~config.mock
    THEN LET is4levels == IF is4levelsArg # TRUE THEN isBufferOnlyBW(data) ELSE is4levelsArg
             display_mode == IF is4levels THEN Some(DISPLAY_UPDATE_MODE_DU4) ELSE None
         IN  [ kind |-> "draw", src |-> src, force16levels |-> force16levels,
               is4levels |-> is4levels, display_mode |-> display_mode, data |-> data,
               buffer |-> downscale8bitsTo4bits(data, is4levels) ]
    ELSE [ kind |-> "png", src |-> src, force16levels |-> force16levels,
           is4levels |-> is4levelsArg, display_mode |-> None, data |-> <<>>,
           buffer |-> <<>> ]

(***************************************************************************)
(* fullRefresh(force16levels), up to its first await: cancels the timer,   *)
(* empties the queue and starts the capture of the whole screen.  The     *)
(* field cleared is history: whether areas were found in the queue.        *)
(***************************************************************************)
clearTimeout(handle) == IF handle = "armed" THEN "stale" ELSE handle

\* a fullRefresh that forgets to cancel the partial refresh
ClearStackKeep(stack) == stack

\* this.stackAreas.length = 0
ClearStack(stack) == <<>>

fullRefreshStart(caller, force16levels, handle) ==
    /\ refreshTimeout' = clearTimeout(handle)
    /\ stackAreas' = ClearStack(Superseded(stackAreas))
    /\ fulls' = fulls (+) One([ caller |-> caller, force16levels |-> force16levels,
                                cleared |-> stackAreas # <<>> ])

\* a decision that follows the policy flag alone, whatever the modules are
FullIs4levelsPolicyOnly(force16levels, nb) ==
    ~force16levels /\ config.defaultTo4levels

\* is4levels of fullRefresh
FullIs4levels(force16levels, nb) ==
    /\ ~force16levels
    /\ \/ (config.defaultTo4levels /\ nb.nbModulesNo4levels = 0)
       \/ (~config.defaultTo4levels /\ nb.nbModules = nb.nbModules4levels)

(***************************************************************************)
(* A front-end sends CONFIG with its config; socketNotificationReceived    *)
(* on a helper that is not initialized stores it and runs initializeEink   *)
(* up to await page.setViewport.  max bounds the CONFIG notifications.     *)
(***************************************************************************)
ReceiveConfig(max) ==
    /\ ~isInitialized
    /\ nbDriverInit < max
    /\ config' = moduleConfig
    /\ display' = IF moduleConfig.mock THEN "mock" ELSE "open"
    /\ nbDriverInit' = nbDriverInit + 1
    /\ inits' = inits (+) One([ pc |-> "setViewport" ])
    /\ lastDraw' = NoDraw
    /\ UNCHANGED << moduleConfig, isInitialized, stackAreas, refreshTimeout,
                    orphanTimers, stopped, nbObservers, fulls, drains,
                    immediates, nbMutations, call >>

(***************************************************************************)
(* initializeEink: setViewport has resolved; isInitialized is set and      *)
(* fullRefresh(true) runs up to its capture.                               *)
(***************************************************************************)
InitViewportDone ==
    /\ BagIn([ pc |-> "setViewport" ], inits)
    /\ isInitialized' = TRUE
    /\ fullRefreshStart("initializeEink", TRUE, refreshTimeout)
    /\ inits' = Replace(inits, [ pc |-> "setViewport" ], [ pc |-> "fullRefresh" ])
    /\ lastDraw' = NoDraw
    /\ UNCHANGED << moduleConfig, config, orphanTimers, display, stopped,
                    nbObservers, nbDriverInit, drains, immediates,
                    nbMutations, call >>

(***************************************************************************)
(* socketNotificationReceived("IT8951_ASK_FULL_REFRESH", payload) on an    *)
(* initialized helper.                                                     *)
(***************************************************************************)
AskFullRefresh(payload) ==
    /\ isInitialized
    /\ BagCardinality(fulls) + orphanTimers < MaxFull
    /\ fullRefreshStart("socketNotificationReceived", Force16Of(payload), refreshTimeout)
    /\ lastDraw' = NoDraw
    /\ UNCHANGED << moduleConfig, isInitialized, config, orphanTimers,
                    display, stopped, nbObservers, nbDriverInit, inits,
                    drains, immediates, nbMutations, call >>

(***************************************************************************)
(* The timer held by refreshTimeout fires: self.fullRefresh(false).        *)
(***************************************************************************)
RefreshTimerFire ==
    /\ refreshTimeout = "armed"
    /\ fullRefreshStart("refreshTimeout", FALSE, "stale")
    /\ lastDraw' = NoDraw
    /\ UNCHANGED << moduleConfig, isInitialized, config, orphanTimers,
                    display, stopped, nbObservers, nbDriverInit, inits,
                    drains, immediates, nbMutations, call >>

(***************************************************************************)
(* A timer armed by an overlapping fullRefresh, which refreshTimeout no    *)
(* longer holds, fires: self.fullRefresh(false).                           *)
(***************************************************************************)
OrphanTimerFire ==
    /\ orphanTimers > 0
    /\ orphanTimers' = orphanTimers - 1
    /\ fullRefreshStart("refreshTimeout", FALSE, refreshTimeout)
    /\ lastDraw' = NoDraw
    /\ UNCHANGED << moduleConfig, isInitialized, config, display, stopped,
                    nbObservers, nbDriverInit, inits, drains, immediates,
                    nbMutations, call >>

(***************************************************************************)
(* fullRefresh from the start of the capture to its end.  The awaits of    *)
(* captureScreen, of getNbVisibleModules and of Sharp follow one another   *)
(* and the helper's state is not touched between them, so they are one     *)
(* step: nbModules are the counts read from the page and data is the raw   *)
(* buffer of the captured image.  is4levels is computed, displayIT8951     *)
(* draws and the next timer is armed.  When the caller is initializeEink,  *)
(* it goes on to initObservers if bufferDelay is a number.                 *)
(***************************************************************************)
FullDisplayDone(f) ==
    /\ BagIn(f, fulls)
    /\ fulls' = fulls (-) One(f)
    /\ refreshTimeout' = "armed"
    /\ orphanTimers' = IF refreshTimeout = "armed" THEN orphanTimers + 1 ELSE orphanTimers
    /\ inits' = IF f.caller = "initializeEink"
                THEN IF IsNumber(config.bufferDelay)
                     THEN Replace(inits, [ pc |-> "fullRefresh" ], [ pc |-> "exposeFunction" ])
                     ELSE inits (-) One([ pc |-> "fullRefresh" ])
                ELSE inits
    /\ FullEnds
    /\ UNCHANGED << moduleConfig, isInitialized, config, display, stopped,
                    nbObservers, nbDriverInit, nbMutations, call >>
    /\ lastDraw' \in { displayIT8951("full", f.force16levels, data,
                                      FullIs4levels(f.force16levels, nbModules)) :
                            nbModules \in ModuleCounts, data \in Rasters }

(***************************************************************************)
(* fullRefresh: the capture, the visibility query, the conversion or the   *)
(* draw fails; the exception leaves fullRefresh (and initializeEink when   *)
(* it is the caller) before setTimeout.                                    *)
(***************************************************************************)
FullFail(f) ==
    /\ BagIn(f, fulls)
    /\ fulls' = fulls (-) One(f)
    /\ inits' = IF f.caller = "initializeEink" THEN inits (-) One([ pc |-> "fullRefresh" ]) ELSE inits
    /\ FullEnds
    /\ lastDraw' = NoDraw
    /\ UNCHANGED << moduleConfig, isInitialized, config, refreshTimeout,
                    orphanTimers, display, stopped, nbObservers, nbDriverInit,
                    nbMutations, call >>

(***************************************************************************)
(* initObservers: page.exposeFunction has resolved; page.evaluate starts.  *)
(***************************************************************************)
InitExposeDone ==
    /\ BagIn([ pc |-> "exposeFunction" ], inits)
    /\ inits' = Replace(inits, [ pc |-> "exposeFunction" ], [ pc |-> "evaluate" ])
    /\ lastDraw' = NoDraw
    /\ UNCHANGED << moduleConfig, isInitialized, config, stackAreas,
                    refreshTimeout, orphanTimers, display, stopped,
                    nbObservers, nbDriverInit, fulls, drains, immediates,
                    nbMutations, call >>

(***************************************************************************)
(* initObservers: page.evaluate has registered the MutationObserver.       *)
(***************************************************************************)
InitEvaluateDone ==
    /\ BagIn([ pc |-> "evaluate" ], inits)
    /\ inits' = inits (-) One([ pc |-> "evaluate" ])
    /\ nbObservers' = nbObservers + 1
    /\ lastDraw' = NoDraw
    /\ UNCHANGED << moduleConfig, isInitialized, config, stackAreas,
                    refreshTimeout, orphanTimers, display, stopped,
                    nbDriverInit, fulls, drains, immediates, nbMutations, call >>

(***************************************************************************)
(* processStack: the while loop from its test to the next await.  Entries  *)
(* whose text is already in rectDone are shifted and dropped; the first    *)
(* other entry is shifted, recorded and handed to captureScreen; with an   *)
(* empty queue the loop and the task end.                                  *)
(***************************************************************************)
\* a loop that does not look at rectDone: every entry is captured
StackLoopNoDedup(stack, rectDone, npop) ==
    IF Len(stack) > 0
    THEN LET rect == Head(stack)
             rectStr == JSONstringify(rect.rect)
         IN  [ stack |-> Tail(stack), rectDone |-> rectDone \cup {rectStr},
               npop |-> [ npop EXCEPT ![rectStr] = @ + 1 ], held |-> Some(rect) ]
    ELSE [ stack |-> stack, rectDone |-> rectDone, npop |-> npop, held |-> None ]

RECURSIVE StackLoop(_, _, _)
StackLoop(stack, rectDone, npop) ==
    IF Len(stack) > 0
    THEN LET rect == Head(stack)
             rectStr == JSONstringify(rect.rect)
             popped == [ npop EXCEPT ![rectStr] = @ + 1 ]
         IN  IF rectStr \notin rectDone
             THEN [ stack |-> Tail(stack), rectDone |-> rectDone \cup {rectStr},
                    npop |-> popped, held |-> Some(rect) ]
             ELSE StackLoop(Tail(stack), rectDone, popped)
    ELSE [ stack |-> stack, rectDone |-> rectDone, npop |-> npop, held |-> None ]

Zero == [ s \in RectStrs |-> 0 ]

\* a processStack execution at its first await (the buffer delay); npop, ncap
\* and ndraw count, per rectangle text, the entries this execution shifted,
\* the captures it started and the draws it dispatched; order lists, in the
\* order of their captures, the ranks of the areas it captured
NewDrain ==
    [ pc |-> "delay", rectDone |-> {}, held |-> None,
      npop |-> Zero, ncap |-> Zero, ndraw |-> Zero, order |-> <<>> ]

\* a processStack with an if in place of the while: after the draw of its
\* first area the execution returns, whatever the queue holds
DrainLoopOnce(d, cur) ==
    LET res == StackLoop(stackAreas, cur.rectDone, cur.npop) IN
    IF cur.pc = "capture"
    THEN /\ stackAreas' = stackAreas
         /\ drains' = drains (-) One(d)
    ELSE /\ stackAreas' = res.stack
         /\ drains' = IF res.held = None
                      THEN drains (-) One(d)
                      ELSE Replace(drains, d,
                             [ cur EXCEPT !.pc = "capture", !.held = res.held,
                                          !.rectDone = res.rectDone, !.npop = res.npop,
                                          !.ncap[JSONstringify(res.held[1].rect)] = @ + 1,
                                          !.order = Append(@, res.held[1].seq) ])

\* the processStack execution d (now in state cur) runs its loop on the queue
DrainLoop(d, cur) ==
    LET res == StackLoop(stackAreas, cur.rectDone, cur.npop) IN
    /\ stackAreas' = res.stack
    /\ drains' = IF res.held = None
                 THEN drains (-) One(d)
                 ELSE Replace(drains, d,
                        [ cur EXCEPT !.pc = "capture", !.held = res.held,
                                     !.rectDone = res.rectDone, !.npop = res.npop,
                                     !.ncap[JSONstringify(res.held[1].rect)] = @ + 1,
                                     !.order = Append(@, res.held[1].seq) ])

\* a handler whose processStack does not wait when bufferDelay is 0: the
\* area pushed on an empty queue is shifted and captured in the same step
puppeteerMutationNoWait(rect, hasClass4levels, hasClassNo4levels) ==
    /\ nbObservers > 0
    /\ nbMutations < MaxMut
    /\ nbMutations' = nbMutations + 1
    /\ IF refreshTimeout # "undefined"
       THEN IF hasClass4levels \/ (config.defaultTo4levels /\ ~hasClassNo4levels)
            THEN /\ immediates' = immediates (+) One([ area |-> NewArea(rect) ])
                 /\ UNCHANGED << stackAreas, drains >>
            ELSE /\ UNCHANGED immediates
                 /\ IF Len(stackAreas) = 0 /\ config.bufferDelay = Some(0)
                    THEN /\ stackAreas' = stackAreas
                         /\ drains' = drains (+)
                               One([ NewDrain EXCEPT
                                       !.pc = "capture", !.held = Some(PushedArea(rect)),
                                       !.rectDone = {JSONstringify(rect)},
                                       !.npop[JSONstringify(rect)] = 1,
                                       !.ncap[JSONstringify(rect)] = 1,
                                       !.order = <<nbMutations + 1>> ])
                    ELSE /\ stackAreas' = Append(stackAreas, PushedArea(rect))
                         /\ drains' = IF Len(stackAreas') = 1
                                      THEN drains (+) One(NewDrain) ELSE drains
       ELSE UNCHANGED << stackAreas, drains, immediates >>
    /\ lastDraw' = NoDraw
    /\ UNCHANGED << moduleConfig, isInitialized, config, refreshTimeout,
                    orphanTimers, display, stopped, nbObservers, nbDriverInit,
                    inits, fulls, call >>

\* a handler without the immediate display: every accepted area is queued
puppeteerMutationBuffered(rect, hasClass4levels, hasClassNo4levels) ==
    /\ nbObservers > 0
    /\ nbMutations < MaxMut
    /\ nbMutations' = nbMutations + 1
    /\ IF refreshTimeout # "undefined"
       THEN /\ stackAreas' = Append(stackAreas, PushedArea(rect))
            /\ drains' = IF Len(stackAreas') = 1 THEN drains (+) One(NewDrain) ELSE drains
       ELSE UNCHANGED << stackAreas, drains >>
    /\ lastDraw' = NoDraw
    /\ UNCHANGED << moduleConfig, isInitialized, config, refreshTimeout,
                    orphanTimers, display, stopped, nbObservers, nbDriverInit,
                    inits, fulls, immediates, call >>

\* a handler that puts the area at the head of the queue (unshift, not push)
puppeteerMutationUnshift(rect, hasClass4levels, hasClassNo4levels) ==
    /\ nbObservers > 0
    /\ nbMutations < MaxMut
    /\ nbMutations' = nbMutations + 1
    /\ IF refreshTimeout # "undefined"
       THEN IF hasClass4levels \/ (config.defaultTo4levels /\ ~hasClassNo4levels)
            THEN /\ immediates' = immediates (+) One([ area |-> NewArea(rect) ])
                 /\ UNCHANGED << stackAreas, drains >>
            ELSE /\ stackAreas' = << PushedArea(rect) >> \o stackAreas
                 /\ drains' = IF Len(stackAreas') = 1 THEN drains (+) One(NewDrain) ELSE drains
                 /\ UNCHANGED immediates
       ELSE UNCHANGED << stackAreas, drains, immediates >>
    /\ lastDraw' = NoDraw
    /\ UNCHANGED << moduleConfig, isInitialized, config, refreshTimeout,
                    orphanTimers, display, stopped, nbObservers, nbDriverInit,
                    inits, fulls, call >>

(***************************************************************************)
(* puppeteerMutation(rect, hasClass4levels, hasClassNo4levels), called by  *)
(* the MutationObserver of the page.                                       *)
(***************************************************************************)
puppeteerMutation(rect, hasClass4levels, hasClassNo4levels) ==
    /\ nbObservers > 0
    /\ nbMutations < MaxMut
    /\ nbMutations' = nbMutations + 1
    /\ IF refreshTimeout # "undefined"
       THEN IF hasClass4levels \/ (config.defaultTo4levels /\ ~hasClassNo4levels)
            THEN /\ immediates' = immediates (+)
                        One([ area |-> NewArea(rect) ])
                 /\ UNCHANGED << stackAreas, drains >>
            ELSE /\ stackAreas' = Append(stackAreas, PushedArea(rect))
                 /\ drains' = IF Len(stackAreas') = 1 THEN drains (+) One(NewDrain) ELSE drains
                 /\ UNCHANGED immediates
       ELSE UNCHANGED << stackAreas, drains, immediates >>
    /\ lastDraw' = NoDraw
    /\ UNCHANGED << moduleConfig, isInitialized, config, refreshTimeout,
                    orphanTimers, display, stopped, nbObservers, nbDriverInit,
                    inits, fulls, call >>

(***************************************************************************)
(* processStack: the timer of the buffer delay fires; the loop starts.     *)
(* Whatever config.bufferDelay is (0 included), setTimeout resolves the    *)
(* promise in a later turn of the event loop.                              *)
(***************************************************************************)
DrainWake(d) ==
    /\ BagIn(d, drains)
    /\ d.pc = "delay"
    /\ DrainLoop(d, d)
    /\ lastDraw' = NoDraw
    /\ UNCHANGED << moduleConfig, isInitialized, config, refreshTimeout,
                    orphanTimers, display, stopped, nbObservers, nbDriverInit,
                    inits, fulls, immediates, nbMutations, call >>

(***************************************************************************)
(* processStack: captureScreen(rect) has resolved and Sharp has produced   *)
(* the raw buffer data (two awaits that follow each other, one step);      *)
(* displayIT8951(imageDesc) draws and returns; the loop goes on with the   *)
(* queue as it is now.                                                     *)
(***************************************************************************)
DrainDisplayDone(d) ==
    /\ BagIn(d, drains)
    /\ d.pc = "capture"
    /\ DrainLoop(d, [ d EXCEPT !.ndraw[JSONstringify(d.held[1].rect)] = @ + 1 ])
    /\ UNCHANGED << moduleConfig, isInitialized, config, refreshTimeout,
                    orphanTimers, display, stopped, nbObservers, nbDriverInit,
                    inits, fulls, immediates, nbMutations, call >>
    /\ lastDraw' \in { displayIT8951("drain", FALSE, data, FALSE) : data \in Rasters }

(***************************************************************************)
(* processStack: the capture, the conversion or the draw fails; the        *)
(* exception ends the task where it is.                                    *)
(***************************************************************************)
DrainFail(d) ==
    /\ BagIn(d, drains)
    /\ d.pc = "capture"
    /\ drains' = drains (-) One(d)
    /\ lastDraw' = NoDraw
    /\ UNCHANGED << moduleConfig, isInitialized, config, stackAreas,
                    refreshTimeout, orphanTimers, display, stopped,
                    nbObservers, nbDriverInit, inits, fulls, immediates,
                    nbMutations, call >>

(***************************************************************************)
(* "Display immediately": captureScreen(rect) has resolved and Sharp has   *)
(* produced the raw buffer data; displayIT8951(imageDesc, true) draws.     *)
(***************************************************************************)
ImmediateDisplayDone(m) ==
    /\ BagIn(m, immediates)
    /\ immediates' = immediates (-) One(m)
    /\ UNCHANGED << moduleConfig, isInitialized, config, stackAreas,
                    refreshTimeout, orphanTimers, display, stopped,
                    nbObservers, nbDriverInit, inits, fulls, drains,
                    nbMutations, call >>
    /\ lastDraw' \in { displayIT8951("immediate", FALSE, data, TRUE) : data \in Rasters }

(***************************************************************************)
(* "Display immediately": the capture, the conversion or the draw fails.   *)
(***************************************************************************)
ImmediateFail(m) ==
    /\ BagIn(m, immediates)
    /\ immediates' = immediates (-) One(m)
    /\ lastDraw' = NoDraw
    /\ UNCHANGED << moduleConfig, isInitialized, config, stackAreas,
                    refreshTimeout, orphanTimers, display, stopped,
                    nbObservers, nbDriverInit, inits, fulls, drains,
                    nbMutations, call >>

(***************************************************************************)
(* stop(): closes the browser; clears and closes the driver when mock is   *)
(* false and the driver exists.  The timer is left as it is.               *)
(***************************************************************************)
stop ==
    /\ ~stopped
    /\ stopped' = TRUE
    /\ display' = IF config.defined /\ config.mock = FALSE /\ display # "undefined"
                  THEN "closed" ELSE display
    /\ lastDraw' = NoDraw
    /\ UNCHANGED << moduleConfig, isInitialized, config, stackAreas,
                    refreshTimeout, orphanTimers, nbObservers, nbDriverInit,
                    inits, fulls, drains, immediates, nbMutations, call >>

Next ==
    \/ ReceiveConfig(MaxConfig)
    \/ InitViewportDone
    \/ \E payload \in Payloads : AskFullRefresh(payload)
    \/ RefreshTimerFire
    \/ OrphanTimerFire
    \/ \E f \in BagToSet(fulls) : FullDisplayDone(f)
    \/ \E f \in BagToSet(fulls) : FullFail(f)
    \/ InitExposeDone
    \/ InitEvaluateDone
    \/ \E rect \in Rects, hasClass4levels \in BOOLEAN, hasClassNo4levels \in BOOLEAN :
          puppeteerMutation(rect, hasClass4levels, hasClassNo4levels)
    \/ \E d \in BagToSet(drains) : DrainWake(d)
    \/ \E d \in BagToSet(drains) : DrainDisplayDone(d)
    \/ \E d \in BagToSet(drains) : DrainFail(d)
    \/ \E m \in BagToSet(immediates) : ImmediateDisplayDone(m)
    \/ \E m \in BagToSet(immediates) : ImmediateFail(m)
    \/ stop

Spec == Init /\ [][Next]_vars

(***************************************************************************)
(* The helper with several front-ends: every browser that loads the page   *)
(* (the Puppeteer page is one of them) sends CONFIG when its DOM is ready, *)
(* so a second CONFIG may arrive before isInitialized is set.  The page    *)
(* reports no mutation and no module asks for a full refresh here.         *)
(***************************************************************************)
NextTwoConfigs ==
    \/ ReceiveConfig(MaxConfigTwice)
    \/ InitViewportDone
    \/ RefreshTimerFire
    \/ OrphanTimerFire
    \/ \E f \in BagToSet(fulls) : FullDisplayDone(f)
    \/ \E f \in BagToSet(fulls) : FullFail(f)
    \/ InitExposeDone
    \/ InitEvaluateDone
    \/ stop

SpecTwoConfigs == Init /\ [][NextTwoConfigs]_vars

(***************************************************************************)
(* The running helper when no capture, conversion or draw fails: the steps *)
(* of Next without FullFail, DrainFail and ImmediateFail, before stop().   *)
(* The full refreshes that are asked for carry the payload false: the      *)
(* payload decides the mode of the full draw only.  A timer that is set    *)
(* fires and an await that does not fail resolves, so a drain task that    *)
(* waits for its buffer delay or for its capture-to-draw sequence goes on. *)
(***************************************************************************)
DrainStep == \E d \in BagToSet(drains) : DrainWake(d) \/ DrainDisplayDone(d)

NextNoFail ==
    \/ ReceiveConfig(MaxConfig)
    \/ InitViewportDone
    \/ AskFullRefresh("false")
    \/ RefreshTimerFire
    \/ OrphanTimerFire
    \/ \E f \in BagToSet(fulls) : FullDisplayDone(f)
    \/ InitExposeDone
    \/ InitEvaluateDone
    \/ \E rect \in Rects, hasClass4levels \in BOOLEAN, hasClassNo4levels \in BOOLEAN :
          puppeteerMutation(rect, hasClass4levels, hasClassNo4levels)
    \/ DrainStep
    \/ \E m \in BagToSet(immediates) : ImmediateDisplayDone(m)

SpecNoFail == Init /\ [][NextNoFail]_vars /\ WF_vars(DrainStep)

(***************************************************************************)
(* The decision of fullRefresh on its own: FullIs4levels is applied to     *)
(* every config the front-end may send, every value of force16levels and   *)
(* all the counts getNbVisibleModules may return.                          *)
(***************************************************************************)
\* every config of the module: bufferDelay undefined, 0 or a delay
AllConfigs ==
    [ defined : {TRUE}, bufferDelay : {None, Some(0), Some(1000)},
      defaultTo4levels : BOOLEAN, mock : BOOLEAN ]

InitClassify ==
    /\ moduleConfig \in AllConfigs
    /\ config = moduleConfig
    /\ call = NoCall
    /\ InitHelper

CallFullIs4levels(force16levels, nbModules) ==
    /\ call = NoCall
    /\ call' = [ fn |-> "FullIs4levels", force16levels |-> force16levels,
                 nbModules |-> nbModules,
                 result |-> FullIs4levels(force16levels, nbModules) ]
    /\ lastDraw' = NoDraw
    /\ UNCHANGED << moduleConfig, isInitialized, config, stackAreas,
                    refreshTimeout, orphanTimers, display, stopped,
                    nbObservers, nbDriverInit, inits, fulls, drains,
                    immediates, nbMutations >>

NextClassify ==
    \E force16levels \in BOOLEAN, nbModules \in ModuleCounts :
        CallFullIs4levels(force16levels, nbModules)

SpecClassify == InitClassify /\ [][NextClassify]_vars

(***************************************************************************)
(* The codec on its own: downscale8bitsTo4bits and isBufferOnlyBW are      *)
(* applied to raw buffers of every length up to MaxLen, odd lengths        *)
(* included.                                                               *)
(***************************************************************************)
\* bytes with every high nibble, the low nibble all zeros or all ones
SampleBytes == { 16 * h + l : h \in 0..15, l \in {0, 15} }

\* 0x00, 0x0F, 0xF0, 0xFF and the grays 0x60, 0x9A
FewBytes == { 0, 15, 240, 255, 96, 154 }

Buffers ==
    UNION { [ 1..n -> SampleBytes ] : n \in 0..MaxLenAll }
        \cup UNION { [ 1..n -> FewBytes ] : n \in (MaxLenAll + 1)..MaxLen }

InitCodec ==
    /\ moduleConfig = EmptyConfig
    /\ config = EmptyConfig
    /\ call = NoCall
    /\ InitHelper

\* the call returns buffer4b: thrown is FALSE, the function has no throw and
\* none of its operations raises an exception
CallDownscale8bitsTo4bits(buffer, is4levels) ==
    /\ call = NoCall
    /\ call' = [ fn |-> "downscale8bitsTo4bits", buffer |-> buffer,
                 is4levels |-> is4levels, thrown |-> FALSE,
                 result |-> Some(downscale8bitsTo4bits(buffer, is4levels)) ]
    /\ lastDraw' = NoDraw
    /\ UNCHANGED << moduleConfig, isInitialized, config, stackAreas,
                    refreshTimeout, orphanTimers, display, stopped,
                    nbObservers, nbDriverInit, inits, fulls, drains,
                    immediates, nbMutations >>

CallIsBufferOnlyBW(buffer) ==
    /\ call = NoCall
    /\ call' = [ fn |-> "isBufferOnlyBW", buffer |-> buffer,
                 result |-> isBufferOnlyBW(buffer) ]
    /\ lastDraw' = NoDraw
    /\ UNCHANGED << moduleConfig, isInitialized, config, stackAreas,
                    refreshTimeout, orphanTimers, display, stopped,
                    nbObservers, nbDriverInit, inits, fulls, drains,
                    immediates, nbMutations >>

NextCodec ==
    \/ \E buffer \in Buffers, is4levels \in BOOLEAN :
            CallDownscale8bitsTo4bits(buffer, is4levels)
    \/ \E buffer \in Buffers : CallIsBufferOnlyBW(buffer)

SpecCodec == InitCodec /\ [][NextCodec]_vars

(***************************************************************************)
(* The callback of the MutationObserver on its own.  Coordinates are       *)
(* counted in half pixels, so that getBoundingClientRect may return        *)
(* fractions of a pixel: Px(n) is n pixels.                                *)
(***************************************************************************)
Px(n) == 2 * n

\* Number.MAX_SAFE_INTEGER (2^53 - 1) is beyond the integers of the model
\* checker: this stands for it, above every coordinate of the model
MAX_SAFE_INTEGER == 1000000

MathMin(a, b) == IF a < b THEN a ELSE b
MathMax(a, b) == IF a > b THEN a ELSE b
MathFloor(v) == Px(1) * (v \div Px(1))
MathCeil(v) == 0 - Px(1) * ((0 - v) \div Px(1))
floor32(v) == Px(32) * (v \div Px(32))
ceil32(v) == 0 - Px(32) * ((0 - v) \div Px(32))

\* the mutations of a batch: the bounding rectangle of the target (on the
\* screen or left of it, on a pixel or not, with or without area) and whether
\* it has an ancestor with class eink-4levels, no-eink-4levels
MutationRecords ==
    [ left : { Px(-100), 21, Px(40) }, width : { 0, Px(10) },
      top : { 1, Px(40) }, height : { 0, 19 },
      is4levels : BOOLEAN, isNo4levels : BOOLEAN ]

Batches == UNION { [ 1..n -> MutationRecords ] : n \in 0..MaxBatch }

\* the body of the loop for one mutation
ExtendRect(rect, rectMut) ==
    IF rectMut.width # 0 /\ rectMut.height # 0
    THEN [ left   |-> floor32(MathMin(rect.left, rectMut.left)),
           top    |-> MathFloor(MathMin(rect.top, rectMut.top)),
           right  |-> ceil32(MathMax(rect.right, rectMut.left + rectMut.width)),
           bottom |-> MathCeil(MathMax(rect.bottom, rectMut.top + rectMut.height)) ]
    ELSE rect

RECURSIVE MergeLoop(_, _)
MergeLoop(rect, mutations) ==
    IF mutations = <<>> THEN rect
    ELSE MergeLoop(ExtendRect(rect, Head(mutations)), Tail(mutations))

\* what the callback passes to puppeteerMutation, None if it does not call
\* it; is4levels and isNo4levels are those of the last mutation of the batch
ObserverCallback(mutations) ==
    LET rect == MergeLoop([ left |-> MAX_SAFE_INTEGER, top |-> MAX_SAFE_INTEGER,
                            right |-> 0, bottom |-> 0 ], mutations)
    IN  IF rect.left < rect.right /\ rect.top < rect.bottom
        THEN Some([ domRect |-> [ x |-> rect.left, y |-> rect.top,
                                  width |-> rect.right - rect.left,
                                  height |-> rect.bottom - rect.top ],
                    is4levels |-> mutations[Len(mutations)].is4levels,
                    isNo4levels |-> mutations[Len(mutations)].isNo4levels ])
        ELSE None

CallObserverCallback(mutations) ==
    /\ call = NoCall
    /\ call' = [ fn |-> "MutationObserver", mutations |-> mutations,
                 reported |-> ObserverCallback(mutations) ]
    /\ lastDraw' = NoDraw
    /\ UNCHANGED << moduleConfig, isInitialized, config, stackAreas,
                    refreshTimeout, orphanTimers, display, stopped,
                    nbObservers, nbDriverInit, inits, fulls, drains,
                    immediates, nbMutations >>

NextObserver == \E mutations \in Batches : CallObserverCallback(mutations)

SpecObserver == InitCodec /\ [][NextObserver]_vars

(***************************************************************************)
(* Properties.                                                             *)
(***************************************************************************)
\* number of elements of the bag that satisfy P
CountIn(bag, P(_)) ==
    BagCardinality([ e \in { x \in BagToSet(bag) : P(x) } |-> CopiesIn(e, bag) ])

Capturing(d) == d.pc = "capture"

\* capture-to-draw sequences in progress
NbSequences == BagCardinality(fulls) + CountIn(drains, Capturing) + BagCardinality(immediates)

\* C1: the draw dispatched by a full refresh that was asked to force 16
\* levels uses the 16-level mode and the passthrough packing, whatever the
\* captured raster is.
C1_ForcedFullRefreshIs16Levels ==
    (lastDraw.src = "full" /\ lastDraw.force16levels)
        => (lastDraw.display_mode # Some(DISPLAY_UPDATE_MODE_DU4) /\ ~lastDraw.is4levels)

\* C2: at most one processStack execution is in flight at any time.
C2_AtMostOneDrainTask == BagCardinality(drains) <= 1

\* C3: at most one capture-to-draw sequence (full refresh, drain task,
\* immediate 4-level display) is in progress at any time.
C3_OneSequenceAtATime == NbSequences <= 1

\* C4: the step that starts a full refresh leaves the queue empty, and no
\* area that was in the queue at that moment is in the queue or in the hands
\* of a drain task afterwards.
C4_NoSupersededArea ==
    /\ \A i \in DOMAIN stackAreas : ~stackAreas[i].superseded
    /\ \A d \in BagToSet(drains) : d.held # None => ~d.held[1].superseded

C4_FullRefreshDiscardsQueue ==
    /\ [][ BagCardinality(fulls') > BagCardinality(fulls) => stackAreas' = <<>> ]_vars
    /\ []C4_NoSupersededArea

\* C4 witness: a full refresh in flight found areas in the queue and the queue
\* is empty, while the drain task that was to process them still waits.
C4_Witness ==
    /\ \E f \in BagToSet(fulls) : f.cleared
    /\ stackAreas = <<>>
    /\ \E d \in BagToSet(drains) : d.pc = "delay"

\* C5: an area reported while a full refresh is in flight is not captured or
\* drawn before that full refresh has dispatched its draw.
C5_NoCaptureBeforeFullDraw ==
    /\ \A d \in BagToSet(drains) : d.pc = "capture" => ~d.held[1].inFull
    /\ \A m \in BagToSet(immediates) : ~m.area.inFull

\* C6: once a fullRefresh execution has ended, however it ended, a timer for
\* the next full refresh is armed.
C6_TimerArmedAfterFullRefresh ==
    (isInitialized /\ fulls = EmptyBag) => (refreshTimeout = "armed" \/ orphanTimers > 0)

\* C7: the queue is never left non-empty with no drain task alive, also after
\* a capture or a draw has failed in a drain pass.
C7_QueueReturnsToIdle == (stackAreas # <<>>) => (drains # EmptyBag)

\* C8: after stop() no full-refresh timer is armed.
C8_StopCancelsTimer == stopped => (refreshTimeout # "armed" /\ orphanTimers = 0)

\* C9: in one drain pass, a rectangle that was shifted from the queue, once or
\* several times, was captured exactly once and drawn at most once, exactly
\* once as soon as its capture-to-draw sequence is over: the later duplicates
\* are shifted and dropped without capture.
C9_OneCaptureAndDrawPerRect ==
    \A d \in BagToSet(drains) : \A s \in RectStrs :
        /\ d.ncap[s] = (IF d.npop[s] > 0 THEN 1 ELSE 0)
        /\ d.ndraw[s] = (IF d.pc = "capture" /\ JSONstringify(d.held[1].rect) = s
                         THEN 0 ELSE d.ncap[s])

\* C9 witness: a pass has shifted the same rectangle twice, captured it once
\* and drawn it once.
C9_Witness ==
    \E d \in BagToSet(drains) : \E s \in RectStrs :
        d.npop[s] >= 2 /\ d.ncap[s] = 1 /\ d.ndraw[s] = 1

C11_ImmediateDrawIs4levels ==
    (lastDraw.src = "immediate") =>
        /\ lastDraw.is4levels
        /\ (lastDraw.kind = "draw") =>
              /\ lastDraw.display_mode = Some(DISPLAY_UPDATE_MODE_DU4)
              /\ lastDraw.buffer = downscale8bitsTo4bits(lastDraw.data, TRUE)

C11_Immediate4levels ==
    /\ [][ \A rect \in Rects, hasClass4levels \in BOOLEAN, hasClassNo4levels \in BOOLEAN :
             ( /\ puppeteerMutation(rect, hasClass4levels, hasClassNo4levels)
               /\ hasClass4levels \/ (config.defaultTo4levels /\ ~hasClassNo4levels) )
             => /\ stackAreas' = stackAreas
                /\ drains' = drains
                /\ immediates' = immediates (+) One([ area |-> NewArea(rect) ]) ]_vars
    /\ []C11_ImmediateDrawIs4levels

\* C11 witness: a gray area was drawn by the immediate display in DU4 mode,
\* with nothing in the queue and no drain task.
C11_Witness ==
    /\ lastDraw.src = "immediate"
    /\ lastDraw.kind = "draw"
    /\ lastDraw.data = <<255, 96>>
    /\ lastDraw.display_mode = Some(DISPLAY_UPDATE_MODE_DU4)
    /\ lastDraw.buffer = <<95>>
    /\ stackAreas = <<>>
    /\ drains = EmptyBag

\* every sample's high nibble is 0x0 or 0xF
PureBlackAndWhite(data) == \A i \in DOMAIN data : (data[i] \div 16) \in {0, 15}

\* C12: an area drawn by the drain task goes to the driver with
\* DISPLAY_UPDATE_MODE_DU4 and the coerced packing if its raw buffer is pure
\* black and white, and with no update mode (16 levels) and the passthrough
\* packing if it is not.
C12_DrainModeFollowsRaster ==
    (lastDraw.src = "drain" /\ lastDraw.kind = "draw") =>
        IF PureBlackAndWhite(lastDraw.data)
        THEN /\ lastDraw.display_mode = Some(DISPLAY_UPDATE_MODE_DU4)
             /\ lastDraw.buffer = downscale8bitsTo4bits(lastDraw.data, TRUE)
        ELSE /\ lastDraw.display_mode = None
             /\ lastDraw.buffer = downscale8bitsTo4bits(lastDraw.data, FALSE)

\* C12 witness: the drain task has drawn a black and white area in DU4 mode.
C12_Witness ==
    /\ lastDraw.src = "drain"
    /\ lastDraw.kind = "draw"
    /\ lastDraw.data = <<0, 255>>
    /\ lastDraw.display_mode = Some(DISPLAY_UPDATE_MODE_DU4)
    /\ lastDraw.buffer = <<240>>

\* C13: when force16levels is false, the is4levels computed by fullRefresh is
\* true exactly when (defaultTo4levels and no visible module has class
\* no-eink-4levels) or (not defaultTo4levels and every visible module has
\* class eink-4levels).
C13_FullDecision ==
    (call.fn = "FullIs4levels" /\ ~call.force16levels) =>
        (call.result <=>
            \/ (config.defaultTo4levels /\ call.nbModules.nbModulesNo4levels = 0)
            \/ (~config.defaultTo4levels
                  /\ call.nbModules.nbModules = call.nbModules.nbModules4levels))

\* C13 witness: without defaultTo4levels, one of two visible modules has not
\* the class eink-4levels and the decision is 16 levels.
C13_Witness ==
    /\ call.fn = "FullIs4levels"
    /\ ~call.force16levels
    /\ ~config.defaultTo4levels
    /\ call.nbModules.nbModules = 2
    /\ call.nbModules.nbModules4levels = 1
    /\ call.result = FALSE

\* C14: the full refresh asked by IT8951_ASK_FULL_REFRESH with payload false
\* (the only payload that gives force16levels false) is drawn with 4 levels.
C14_PayloadFalseForces4levels ==
    [][ \A f \in BagToSet(fulls) :
          ( /\ FullDisplayDone(f)
            /\ f.caller = "socketNotificationReceived"
            /\ ~f.force16levels
            /\ lastDraw'.kind = "draw" )
          => /\ lastDraw'.is4levels
             /\ lastDraw'.display_mode = Some(DISPLAY_UPDATE_MODE_DU4) ]_vars

\* the high nibble of sample k (k from 0) of a raw buffer
HighNibble(buffer, k) == buffer[k + 1] \div 16

\* a call of downscale8bitsTo4bits on a buffer of even length has returned
PackedEven(is4levels) ==
    /\ call.fn = "downscale8bitsTo4bits"
    /\ call.is4levels = is4levels
    /\ Len(call.buffer) % 2 = 0
    /\ call.result # None

\* C15 as stated: the passthrough packing of an even-length buffer has half
\* its length, and byte i holds the high nibble of sample 2i in its high
\* nibble and the high nibble of sample 2i+1 in its low nibble.
C15_PassthroughFirstSampleHigh ==
    PackedEven(FALSE) =>
        /\ Len(call.result[1]) = Len(call.buffer) \div 2
        /\ \A i \in 0..(Len(call.result[1]) - 1) :
              /\ call.result[1][i + 1] \div 16 = HighNibble(call.buffer, 2 * i)
              /\ call.result[1][i + 1] % 16 = HighNibble(call.buffer, 2 * i + 1)

\* C15 amended: the passthrough packing of an even-length buffer has half its
\* length, and byte i holds the high nibble of sample 2i in its low nibble
\* and the high nibble of sample 2i+1 in its high nibble.
C15_PassthroughFirstSampleLow ==
    PackedEven(FALSE) =>
        /\ Len(call.result[1]) = Len(call.buffer) \div 2
        /\ \A i \in 0..(Len(call.result[1]) - 1) :
              /\ call.result[1][i + 1] % 16 = HighNibble(call.buffer, 2 * i)
              /\ call.result[1][i + 1] \div 16 = HighNibble(call.buffer, 2 * i + 1)

\* C15 witness: 0x60 0xF0 0x9A 0x0F is packed into 0xF6 0x09.
C15_Witness ==
    /\ PackedEven(FALSE)
    /\ call.buffer = <<96, 240, 154, 15>>
    /\ call.result = Some(<<246, 9>>)

C17_OddLengthRejected ==
    (call.fn = "downscale8bitsTo4bits" /\ Len(call.buffer) % 2 = 1) =>
        (call.thrown /\ call.result = None)

\* C18: isBufferOnlyBW returns true if and only if the high nibble of every
\* sample is 0x0 or 0xF, whatever the low nibbles are; so it is true for the
\* empty buffer.
C18_OnlyBWIffHighNibblesExtreme ==
    (call.fn = "isBufferOnlyBW") =>
        /\ call.result <=> PureBlackAndWhite(call.buffer)
        /\ (call.buffer = <<>>) => call.result

\* C18 witness: one gray sample after 0x0F and 0xF0 gives false.
C18_Witness ==
    /\ call.fn = "isBufferOnlyBW"
    /\ call.buffer = <<15, 240, 96>>
    /\ call.result = FALSE

\* C19: on an even-length buffer that isBufferOnlyBW accepts, the coerced
\* packing and the passthrough packing return the same bytes.
C19_BWPacksTheSame ==
    ( /\ call.fn = "downscale8bitsTo4bits"
      /\ Len(call.buffer) % 2 = 0
      /\ isBufferOnlyBW(call.buffer) ) =>
        call.result = Some(downscale8bitsTo4bits(call.buffer, ~call.is4levels))

\* C19 witness: 0x0F 0xF0 0xFF 0x00 is packed into 0xF0 0x0F in coerced mode.
C19_Witness ==
    /\ PackedEven(TRUE)
    /\ isBufferOnlyBW(call.buffer)
    /\ call.buffer = <<15, 240, 255, 0>>
    /\ call.result = Some(<<240, 15>>)

\* the least and the greatest element of a non-empty set of integers
Least(S) == CHOOSE v \in S : \A w \in S : v <= w
Greatest(S) == CHOOSE v \in S : \A w \in S : v >= w

\* C20: the callback reports the bounding box of the mutations with a
\* positive area, its left rounded down and its right rounded up to a
\* multiple of 32 pixels, its top rounded down and its bottom rounded up to a
\* pixel, whatever the order of the mutations; it reports nothing when no
\* mutation has a positive area or when that box is empty.
C20_MergedIsBoundingBox ==
    (call.fn = "MutationObserver") =>
        LET m == call.mutations
            pos == { i \in DOMAIN m : m[i].width > 0 /\ m[i].height > 0 }
            left == floor32(Least({ m[i].left : i \in pos }))
            right == ceil32(Greatest({ m[i].left + m[i].width : i \in pos }))
            top == MathFloor(Least({ m[i].top : i \in pos }))
            bottom == MathCeil(Greatest({ m[i].top + m[i].height : i \in pos }))
        IN  IF pos = {} THEN call.reported = None
            ELSE IF left < right /\ top < bottom
                 THEN /\ call.reported # None
                      /\ call.reported[1].domRect =
                            [ x |-> left, y |-> top,
                              width |-> right - left, height |-> bottom - top ]
                 ELSE call.reported = None


\* C21: every full-refresh timer that is armed and has not fired is the one
\* that refreshTimeout holds, so at most one is armed, also when a requested
\* fullRefresh overlaps one that is still in flight.
C21_AtMostOneTimerArmed == orphanTimers = 0

\* C22: in one drain pass the areas are captured and drawn in the order in
\* which they were pushed on the queue: the ranks of the areas a pass has
\* captured, taken in the order of the captures, increase, and the areas that
\* wait in the queue are in the order of their ranks.
C22_DrawnInEnqueueOrder ==
    /\ \A d \in BagToSet(drains) : \A i, j \in DOMAIN d.order :
            i < j => d.order[i] < d.order[j]
    /\ \A i, j \in DOMAIN stackAreas : i < j => stackAreas[i].seq < stackAreas[j].seq

\* C22 witness: a pass has drawn one rectangle and now captures another one,
\* which was pushed after the first.
C22_Witness ==
    \E d \in BagToSet(drains) :
        /\ d.pc = "capture"
        /\ Len(d.order) = 2
        /\ d.order[1] < d.order[2]
        /\ \E s \in RectStrs : d.ndraw[s] = 1 /\ s # JSONstringify(d.held[1].rect)

\* C23: a mutation reported while a fullRefresh execution is in progress
\* (started, its timer not armed again yet) is neither displayed immediately
\* nor added to the queue, and starts no drain task.
C23_NoMutationDuringFullRefresh ==
    [][ (fulls # EmptyBag /\ nbMutations' # nbMutations) =>
            (stackAreas' = stackAreas /\ immediates' = immediates /\ drains' = drains) ]_vars

\* initial full refreshes (fullRefresh(true) of initializeEink) in flight
FromInitializeEink(f) == f.caller = "initializeEink"

\* C24: whatever CONFIG notifications arrive and whenever they arrive, the
\* driver is created and initialized at most once, at most one initial full
\* refresh runs and at most one mutation observer is registered.
C24_InitializedOnce ==
    /\ nbDriverInit <= 1
    /\ BagCardinality(inits) <= 1
    /\ CountIn(fulls, FromInitializeEink) <= 1
    /\ nbObservers <= 1

\* C25: when no capture and no draw fails, a non-empty queue always has a
\* drain task alive; a queue that is not empty becomes empty (each of its
\* areas is captured and drawn, dropped as a duplicate or discarded by a full
\* refresh), and in the end the queue is empty and no drain task is left.
C25_QueueDrains ==
    /\ [](stackAreas # <<>> => drains # EmptyBag)
    /\ (stackAreas # <<>>) ~> (stackAreas = <<>>)
    /\ <>[](stackAreas = <<>> /\ drains = EmptyBag)

\* C25 witness: an area waits in the queue while the only drain task, which
\* has drawn one area already, captures the next one: the area that waits is
\* left to that task.
C25_Witness ==
    /\ stackAreas # <<>>
    /\ BagCardinality(drains) = 1
    /\ \E d \in BagToSet(drains) :
          d.pc = "capture" /\ \E s \in RectStrs : d.ndraw[s] = 1
=============================================================================
